---- MODULE Spec2Model ----
(***************************************************************************)
(* State-machine model of the two binaries of rust_book_chapter_19:        *)
(*   "large" = src/main_stuff/src/main.rs  (five demonstrations)           *)
(*   "small" = src/src/main.rs             (the first three)               *)
(* Each binary is one single-threaded process with its own stack, heap,    *)
(* static COUNTER and standard output.  A program counter is a record      *)
(* [fn, at]: the function being executed and the line (numbered as in      *)
(* src/main_stuff/src/main.rs) of the statement that runs next.            *)
(***************************************************************************)
EXTENDS Integers, Sequences, FiniteSets, TLC

(* ------------------------------ bounds --------------------------------- *)
\* longest vector handed to hello by the unit driver
MaxVecLen == 6
\* longest sequence of BarStruct method calls made by the unit driver
MaxCalls == 3
\* how far from 0, 2^16 and 2^32 - 1 the u32 inputs of the unit driver reach
NearEdge == 3
\* longest argument list handed to vec_new! by the unit driver
MaxArgs == 3
\* longest vector of strings wrapped and displayed by the unit driver
MaxStrs == 2

(* ------------------------- machine parameters -------------------------- *)
\* size in bytes of an i32
I32Size == 4
\* bytes reserved for the locals of one activation record in this model
FrameSize == 128
\* candidate addresses of the top of the stack and of the first heap block
StackBases == {32768, 49152}
HeapBases == {4096, 8192}
\* overflow checks are compiled in (debug) or arithmetic wraps (release)
Profiles == {"debug", "release"}
\* what a read through an invalid pointer may produce when it does not trap
Garbage == {0, -1}
Programs == {"small", "large"}

(* ------------------------------- u32 ----------------------------------- *)
\* a u32 is kept as two 16-bit halves so that 2^32 - 1 is representable
Half == 65536
U32(n) == [hi |-> n \div Half, lo |-> n % Half]
U32Max == [hi |-> Half - 1, lo |-> Half - 1]

\* a + b on u32: wraps modulo 2^32, ovf tells that the sum did not fit
U32Sum(a, b) ==
    LET lo == a.lo + b.lo
        hi == a.hi + b.hi + lo \div Half
    IN  [val |-> [hi |-> hi % Half, lo |-> lo % Half], ovf |-> hi >= Half]

\* the `+` of the language: panics on overflow in a debug build, wraps otherwise
U32Add(a, b, profile) ==
    LET s == U32Sum(a, b)
    IN  [ok |-> ~(s.ovf /\ profile = "debug"), val |-> s.val]

\* decimal rendering of a u32 ({} and {:?})
RECURSIVE FmtU32(_)
FmtU32(v) ==
    LET r1 == v.hi % 10
        q == [hi |-> v.hi \div 10, lo |-> (r1 * Half + v.lo) \div 10]
        d == (r1 * Half + v.lo) % 10
    IN  IF q.hi = 0 /\ q.lo = 0 THEN ToString(d) ELSE FmtU32(q) \o ToString(d)

(* ----------------------------- formatting ------------------------------ *)
FmtI32(n) == ToString(n)

\* a format string is kept as its literal pieces, cut at each placeholder
RECURSIVE Format(_, _)
Format(pieces, args) ==
    IF args = <<>> THEN pieces[1]
    ELSE pieces[1] \o args[1] \o Format(Tail(pieces), Tail(args))

\* strs[1] sep strs[2] sep ... strs[n]
RECURSIVE Join(_, _)
Join(strs, sep) ==
    IF strs = <<>> THEN ""
    ELSE IF Len(strs) = 1 THEN strs[1]
    ELSE strs[1] \o sep \o Join(Tail(strs), sep)

\* {:?} of a slice of i32
FmtSlice(elems) == "[" \o Join([i \in 1..Len(elems) |-> FmtI32(elems[i])], ", ") \o "]"
\* {:?} of a pair
FmtPair(a, b) == "(" \o a \o ", " \o b \o ")"
\* {:?} of Option<u32> and of Option<String>
Some(v) == [some |-> TRUE, val |-> v]
FmtOptionU32(o) == IF o.some THEN "Some(" \o FmtU32(o.val) \o ")" ELSE "None"
FmtOptionString(o) == IF o.some THEN "Some(\"" \o o.val \o "\")" ELSE "None"

(* ------------------- the format strings of each file ------------------- *)
fmt_large ==
    [ mut_ptr |-> <<"mut_ptr: ", "">>,
      ptr |-> <<"ptr: ", "">>,
      danger |-> <<"Dangerous function called!">>,
      danger_two |-> <<"Another dangerous function ", "">>,
      hello |-> <<"Unsafe stuff: ", "">>,
      abs |-> <<"Absolute value of -3 according to C: ", "">>,
      counter |-> <<"COUNTER: ", "">>,
      bar |-> <<"associated ", " generic::u32 ", " generic::String ", "">>,
      win |-> <<"win ", "">>,
      arm |-> <<"My arm feels good">>,
      leg |-> <<"My leg is a little sore">>,
      human |-> <<"Overall I feel good">>,
      show_stuff |-> <<"running show_stuff() ", "">>,
      box |-> <<"", "">>,
      wrapper |-> <<"[", "]">>,
      wrapper_sep |-> <<", ">>,
      w |-> <<"w = ", "">>,
      hi |-> <<"hello: ", "">>,
      never |-> <<"never type">>,
      closure_add |-> <<"add from closure ", "">>,
      function_ptr_add |-> <<"add from function ptr ", "">>,
      returned |-> <<"returned value: ", "">>,
      vec_new |-> <<"vec_new: ", "">> ]

fmt_small ==
    [ mut_ptr |-> <<"mut_ptr: ", "">>,
      ptr |-> <<"ptr: ", "">>,
      danger |-> <<"Dangerous function called!">>,
      danger_two |-> <<"Another dangerous function ", "">>,
      hello |-> <<"Unsafe stuff: ", "">>,
      abs |-> <<"Absolute value of -3 according to C: ", "">>,
      counter |-> <<"COUNTER: ", "">>,
      bar |-> <<"associated ", " generic::u32 ", " generic::String ", "">>,
      win |-> <<"win ", "">>,
      arm |-> <<"My arm feels good">>,
      leg |-> <<"My leg is a little sore">>,
      human |-> <<"Overall I feel good">>,
      show_stuff |-> <<"running show_stuff() ", "">>,
      box |-> <<"", "">>,
      wrapper |-> <<"[", "]">>,
      wrapper_sep |-> <<", ">>,
      w |-> <<"w = ", "">>,
      hi |-> <<"hello: ", "">>,
      never |-> <<"never type">> ]

fmt(p) == IF p = "small" THEN fmt_small ELSE fmt_large

(* --------------------------- main of each file ------------------------- *)
main_large_swapped ==
    << "unsafe_rust", "advanced_types", "advanced_traits",
       "advanced_functions_and_closures", "macros" >>
\* the calls of main, in program order
main_large ==
    << "unsafe_rust", "advanced_traits", "advanced_types",
       "advanced_functions_and_closures", "macros" >>

main_small_swapped == << "unsafe_rust", "advanced_types", "advanced_traits" >>
main_small == << "unsafe_rust", "advanced_traits", "advanced_types" >>

main(p) == IF p = "small" THEN main_small ELSE main_large
\* line of `fn main() {`; call k of main stands on line MainLine + k
MainLine == 5

\* first statement and closing brace of each function
Entry(f) ==
    CASE f = "unsafe_rust" -> 28
      [] f = "advanced_traits" -> 164
      [] f = "advanced_types" -> 292
      [] f = "advanced_functions_and_closures" -> 342
      [] f = "macros" -> 410
      [] f = "danger" -> 50
      [] f = "danger_two" -> 59
      [] f = "hello" -> 73
End(f) ==
    CASE f = "unsafe_rust" -> 115
      [] f = "advanced_traits" -> 282
      [] f = "advanced_types" -> 323
      [] f = "advanced_functions_and_closures" -> 366
      [] f = "macros" -> 441
      [] f = "danger" -> 51
      [] f = "danger_two" -> 64
      [] f = "hello" -> 80

(* ------------------------------- state --------------------------------- *)
VARIABLES
    pc,          \* pc[p]: [fn, at], the statement process p executes next
    stack,       \* stack[p]: activation records [fn, ret], main at the bottom
    mem,         \* mem[p]: the live memory cells, address |-> [var, val]
    COUNTER,     \* COUNTER[p]: the mutable static of unsafe_rust
    out,         \* out[p]: the lines written to standard output
    trace,       \* trace[p]: calls and returns of the demonstrations (history)
    derefs,      \* derefs[p]: raw-pointer dereferences performed (history)
    counter_log, \* counter_log[p]: accesses to COUNTER (history)
    stack_base,  \* stack_base[p]: where the loader put the stack
    heap_base,   \* heap_base[p]: where the allocator puts the first block
    profile,     \* profile[p]: build profile of the binary
    unit         \* the last call made by the unit driver

vars == << pc, stack, mem, COUNTER, out, trace, derefs, counter_log,
           stack_base, heap_base, profile, unit >>
layout == << stack_base, heap_base, profile >>

EmptyMem == [a \in {} |-> 0]
At(p, f, l) == pc[p] = [fn |-> f, at |-> l]
Goto(p, f, l) == pc' = [pc EXCEPT ![p] = [fn |-> f, at |-> l]]
Println(p, s) == out' = [out EXCEPT ![p] = Append(@, s)]

\* address of the local at offset off in the innermost activation record
FrameBase(p, depth) == stack_base[p] - depth * FrameSize
Local(p, off) == FrameBase(p, Len(stack[p])) + off
FrameCells(p, depth) == FrameBase(p, depth) .. (FrameBase(p, depth) + FrameSize - 1)
Without(m, gone) == [a \in (DOMAIN m) \ gone |-> m[a]]

\* what reading an i32 through a raw pointer can do: the value of the live
\* cell, or for a pointer to no live cell a trap or an arbitrary value
ReadI32(m, a) ==
    IF a \in DOMAIN m THEN {[ok |-> TRUE, val |-> m[a].val]}
    ELSE {[ok |-> FALSE, val |-> 0]} \cup {[ok |-> TRUE, val |-> g] : g \in Garbage}

Init ==
    /\ pc = [p \in Programs |-> [fn |-> "main", at |-> MainLine + 1]]
    /\ stack = [p \in Programs |->
                  << [fn |-> "main", ret |-> [fn |-> "exit", at |-> 0], heap |-> {}] >>]
    /\ mem = [p \in Programs |-> EmptyMem]
    /\ COUNTER = [p \in Programs |-> 0]
    /\ out = [p \in Programs |-> <<>>]
    /\ trace = [p \in Programs |-> <<>>]
    /\ derefs = [p \in Programs |-> <<>>]
    /\ counter_log = [p \in Programs |-> <<>>]
    /\ stack_base \in [Programs -> StackBases]
    /\ heap_base \in [Programs -> HeapBases]
    /\ profile \in [Programs -> Profiles]
    /\ unit = [op |-> "none"]

(* ------------------------------- main ---------------------------------- *)
\* main calls its next demonstration
main_call(p) ==
    /\ pc[p].fn = "main"
    /\ pc[p].at - MainLine \in 1..Len(main(p))
    /\ LET f == main(p)[pc[p].at - MainLine]
       IN  /\ stack' = [stack EXCEPT ![p] =
                  Append(@, [fn |-> f, heap |-> {},
                             ret |-> [fn |-> "main", at |-> pc[p].at + 1]])]
           /\ Goto(p, f, Entry(f))
           /\ trace' = [trace EXCEPT ![p] =
                  Append(@, [ev |-> "call", fn |-> f, at |-> Len(out[p])])]
    /\ UNCHANGED << mem, COUNTER, out, derefs, counter_log, layout, unit >>

\* main falls off its closing brace: the process exits normally
main_return(p) ==
    /\ pc[p].fn = "main"
    /\ pc[p].at - MainLine = Len(main(p)) + 1
    /\ pc' = [pc EXCEPT ![p] = stack[p][1].ret]
    /\ stack' = [stack EXCEPT ![p] = <<>>]
    /\ UNCHANGED << mem, COUNTER, out, trace, derefs, counter_log, layout, unit >>

\* a nested function or a demonstration reaches its closing brace: its locals
\* die, the heap blocks it owns are freed, control returns to the caller
fn_return(p) ==
    /\ pc[p].fn /= "main"
    /\ pc[p].fn \notin {"exit", "panic", "abort"}
    /\ pc[p].at = End(pc[p].fn)
    /\ LET depth == Len(stack[p])
           top == stack[p][depth]
       IN  /\ pc' = [pc EXCEPT ![p] = top.ret]
           /\ stack' = [stack EXCEPT ![p] = SubSeq(@, 1, depth - 1)]
           /\ mem' = [mem EXCEPT ![p] = Without(@, FrameCells(p, depth) \cup top.heap)]
           /\ trace' = [trace EXCEPT ![p] =
                  IF top.ret.fn = "main"
                  THEN Append(@, [ev |-> "ret", fn |-> top.fn, at |-> Len(out[p])])
                  ELSE @]
    /\ UNCHANGED << COUNTER, out, derefs, counter_log, layout, unit >>

\* a local is bound: its cell becomes live and holds v
Let(p, off, name, v) ==
    mem' = [mem EXCEPT ![p] = (Local(p, off) :> [var |-> name, val |-> v]) @@ @]
\* value of a local of the innermost activation record
Get(p, off) == mem[p][Local(p, off)].val
\* a nested function is entered
Push(p, f, retat) ==
    stack' = [stack EXCEPT ![p] =
        Append(@, [fn |-> f, heap |-> {}, ret |-> [fn |-> pc[p].fn, at |-> retat]])]
\* a raw pointer is dereferenced (history)
LogDeref(p, name, a) ==
    derefs' = [derefs EXCEPT ![p] = Append(@,
        [ptr |-> name, addr |-> a, fn |-> pc[p].fn,
         target |-> IF a \in DOMAIN mem[p] THEN mem[p][a].var ELSE "nothing"])]
Abort(p) == pc' = [pc EXCEPT ![p] = [fn |-> "abort", at |-> pc[p].at]]
Panic(p) == pc' = [pc EXCEPT ![p] = [fn |-> "panic", at |-> pc[p].at]]

(* ----------------------------- unsafe_rust ----------------------------- *)
\* offsets of the locals of unsafe_rust in its activation record
Slot ==
    ("x" :> 0) @@ ("immutable_ptr" :> 8) @@ ("mutable_ptr" :> 16) @@ ("address" :> 24)
    @@ ("_unknown_if_valid" :> 32) @@ ("x_vec" :> 40) @@ ("tmp" :> 64)

\* let mut x = 5;
unsafe_rust_28(p) ==
    /\ At(p, "unsafe_rust", 28)
    /\ Let(p, Slot["x"], "x", 5)
    /\ Goto(p, "unsafe_rust", 31)
    /\ UNCHANGED << stack, COUNTER, out, trace, derefs, counter_log, layout, unit >>

\* let immutable_ptr = &x as *const i32;
unsafe_rust_31(p) ==
    /\ At(p, "unsafe_rust", 31)
    /\ Let(p, Slot["immutable_ptr"], "immutable_ptr", Local(p, Slot["x"]))
    /\ Goto(p, "unsafe_rust", 33)
    /\ UNCHANGED << stack, COUNTER, out, trace, derefs, counter_log, layout, unit >>

\* let mutable_ptr = &mut x as *mut i32;
unsafe_rust_33(p) ==
    /\ At(p, "unsafe_rust", 33)
    /\ Let(p, Slot["mutable_ptr"], "mutable_ptr", Local(p, Slot["x"]))
    /\ Goto(p, "unsafe_rust", 36)
    /\ UNCHANGED << stack, COUNTER, out, trace, derefs, counter_log, layout, unit >>

\* 0x012345
ArbitraryAddress == 74565

\* let address = 0x012345usize;
unsafe_rust_36(p) ==
    /\ At(p, "unsafe_rust", 36)
    /\ Let(p, Slot["address"], "address", ArbitraryAddress)
    /\ Goto(p, "unsafe_rust", 37)
    /\ UNCHANGED << stack, COUNTER, out, trace, derefs, counter_log, layout, unit >>

\* let _unknown_if_valid = address as *const i32;
unsafe_rust_37(p) ==
    /\ At(p, "unsafe_rust", 37)
    /\ Let(p, Slot["_unknown_if_valid"], "_unknown_if_valid", Get(p, Slot["address"]))
    /\ Goto(p, "unsafe_rust", 40)
    /\ UNCHANGED << stack, COUNTER, out, trace, derefs, counter_log, layout, unit >>

\* println!("{..} {}", *ptr): the pointer held by local `name` is dereferenced
\* and the value read is printed; a trap ends the process
PrintDeref(p, name, off, f, next) ==
    LET a == Get(p, off)
    IN  /\ LogDeref(p, name, a)
        /\ \E r \in ReadI32(mem[p], a) :
              IF r.ok
              THEN Println(p, Format(f, <<FmtI32(r.val)>>)) /\ Goto(p, pc[p].fn, next)
              ELSE Abort(p) /\ UNCHANGED out

operand_40_unknown == "_unknown_if_valid"
\* the pointers dereferenced on lines 40 and 41
operand_40 == "mutable_ptr"
operand_41 == "immutable_ptr"

\* println!("mut_ptr: {}", *mutable_ptr);
unsafe_rust_40(p) ==
    /\ At(p, "unsafe_rust", 40)
    /\ PrintDeref(p, operand_40, Slot[operand_40], fmt(p).mut_ptr, 41)
    /\ UNCHANGED << stack, mem, COUNTER, trace, counter_log, layout, unit >>

\* println!("ptr: {}", *immutable_ptr);
unsafe_rust_41(p) ==
    /\ At(p, "unsafe_rust", 41)
    /\ PrintDeref(p, operand_41, Slot[operand_41], fmt(p).ptr, 54)
    /\ UNCHANGED << stack, mem, COUNTER, trace, counter_log, layout, unit >>

\* danger();
unsafe_rust_54(p) ==
    /\ At(p, "unsafe_rust", 54)
    /\ Push(p, "danger", 66)
    /\ Goto(p, "danger", Entry("danger"))
    /\ UNCHANGED << mem, COUNTER, out, trace, derefs, counter_log, layout, unit >>

\* println!("Dangerous function called!");
danger_50(p) ==
    /\ At(p, "danger", 50)
    /\ Println(p, Format(fmt(p).danger, <<>>))
    /\ Goto(p, "danger", End("danger"))
    /\ UNCHANGED << stack, mem, COUNTER, trace, derefs, counter_log, layout, unit >>

\* danger_two();
unsafe_rust_66(p) ==
    /\ At(p, "unsafe_rust", 66)
    /\ Push(p, "danger_two", 82)
    /\ Goto(p, "danger_two", Entry("danger_two"))
    /\ UNCHANGED << mem, COUNTER, out, trace, derefs, counter_log, layout, unit >>

\* offsets of the locals of danger_two
SlotTwo == ("x" :> 0) @@ ("ptr" :> 8)

\* let mut x = 1;
danger_two_59(p) ==
    /\ At(p, "danger_two", 59)
    /\ Let(p, SlotTwo["x"], "danger_two::x", 1)
    /\ Goto(p, "danger_two", 60)
    /\ UNCHANGED << stack, COUNTER, out, trace, derefs, counter_log, layout, unit >>

\* let ptr = &mut x as *mut i32;
danger_two_60(p) ==
    /\ At(p, "danger_two", 60)
    /\ Let(p, SlotTwo["ptr"], "ptr", Local(p, SlotTwo["x"]))
    /\ Goto(p, "danger_two", 62)
    /\ UNCHANGED << stack, COUNTER, out, trace, derefs, counter_log, layout, unit >>

\* println!("Another dangerous function {:?}", *ptr);
danger_two_62(p) ==
    /\ At(p, "danger_two", 62)
    /\ PrintDeref(p, "ptr", SlotTwo["ptr"], fmt(p).danger_two, End("danger_two"))
    /\ UNCHANGED << stack, mem, COUNTER, trace, counter_log, layout, unit >>

(* ------------------------ unsafe_rust: hello --------------------------- *)
\* a Vec<i32> is [ptr, len, cap]; a slice is [ptr, len]; element i of either
\* lives at ptr + i * I32Size
vec_82_short == <<1, 2, 3, 4>>
\* vec![1, 2, 3, 4, 5]
vec_82 == <<1, 2, 3, 4, 5>>

\* NonNull::dangling(): the buffer pointer of a vector that owns no memory
Dangling == I32Size
ElemAddr(ptr, i) == ptr + i * I32Size
\* the heap cells of a vector with elements elems placed at address base
VecCells(base, elems) ==
    [a \in {ElemAddr(base, i) : i \in 0..(Len(elems) - 1)} |->
        [var |-> "heap", val |-> elems[(a - base) \div I32Size + 1]]]
VecAt(base, elems) ==
    [ptr |-> IF elems = <<>> THEN Dangling ELSE base, len |-> Len(elems), cap |-> Len(elems)]

\* let mut x = vec![1, 2, 3, 4, 5];
unsafe_rust_82(p) ==
    /\ At(p, "unsafe_rust", 82)
    /\ LET cells == VecCells(heap_base[p], vec_82)
       IN  /\ mem' = [mem EXCEPT ![p] =
                  (Local(p, Slot["x_vec"]) :> [var |-> "x_vec", val |-> VecAt(heap_base[p], vec_82)])
                  @@ cells @@ @]
           /\ stack' = [stack EXCEPT ![p][Len(stack[p])].heap = DOMAIN cells]
    /\ Goto(p, "unsafe_rust", 85)
    /\ UNCHANGED << COUNTER, out, trace, derefs, counter_log, layout, unit >>

\* offsets of the locals of hello
SlotHello == ("x" :> 0) @@ ("ptr" :> 8) @@ ("first" :> 16) @@ ("second" :> 32)

\* hello(&mut x): the call; its value is printed once it has returned
unsafe_rust_85(p) ==
    /\ At(p, "unsafe_rust", 85)
    /\ Push(p, "hello", 86)
    /\ mem' = [mem EXCEPT ![p] =
           (FrameBase(p, Len(stack[p]) + 1) + SlotHello["x"]
               :> [var |-> "hello::x", val |-> Local(p, Slot["x_vec"])]) @@ @]
    /\ Goto(p, "hello", Entry("hello"))
    /\ UNCHANGED << COUNTER, out, trace, derefs, counter_log, layout, unit >>

\* let ptr = x.as_mut_ptr();
hello_73(p) ==
    /\ At(p, "hello", 73)
    /\ Let(p, SlotHello["ptr"], "hello::ptr", mem[p][Get(p, SlotHello["x"])].val.ptr)
    /\ Goto(p, "hello", 76)
    /\ UNCHANGED << stack, COUNTER, out, trace, derefs, counter_log, layout, unit >>

\* slice::from_raw_parts_mut(ptr, 3)
hello_first(ptr) == [ptr |-> ptr, len |-> 3]
hello_second_overlapping(ptr) == [ptr |-> ElemAddr(ptr, 2), len |-> 2]
\* slice::from_raw_parts_mut(ptr.add(3), 2)
hello_second(ptr) == [ptr |-> ElemAddr(ptr, 3), len |-> 2]
\* the pair of slices hello returns for the vector x
hello(x) == LET ptr == x.ptr IN << hello_first(ptr), hello_second(ptr) >>

\* let first = slice::from_raw_parts_mut(ptr, 3);
hello_76(p) ==
    /\ At(p, "hello", 76)
    /\ Let(p, SlotHello["first"], "first", hello_first(Get(p, SlotHello["ptr"])))
    /\ Goto(p, "hello", 77)
    /\ UNCHANGED << stack, COUNTER, out, trace, derefs, counter_log, layout, unit >>

\* let second = slice::from_raw_parts_mut(ptr.add(3), 2);
hello_77(p) ==
    /\ At(p, "hello", 77)
    /\ Let(p, SlotHello["second"], "second", hello_second(Get(p, SlotHello["ptr"])))
    /\ Goto(p, "hello", 79)
    /\ UNCHANGED << stack, COUNTER, out, trace, derefs, counter_log, layout, unit >>

\* (first, second): the pair is moved into the caller's temporary
hello_79(p) ==
    /\ At(p, "hello", 79)
    /\ mem' = [mem EXCEPT ![p] =
           (FrameBase(p, Len(stack[p]) - 1) + Slot["tmp"]
               :> [var |-> "tmp", val |-> << Get(p, SlotHello["first"]),
                                             Get(p, SlotHello["second"]) >>]) @@ @]
    /\ Goto(p, "hello", End("hello"))
    /\ UNCHANGED << stack, COUNTER, out, trace, derefs, counter_log, layout, unit >>

\* addresses of the elements of a slice, and what reading them all can give:
\* the values of the cells when all are live, else a trap or arbitrary values
SliceAddrs(s) == [i \in 1..s.len |-> ElemAddr(s.ptr, i - 1)]
SliceRead(m, s) ==
    LET addrs == SliceAddrs(s)
    IN  IF \A i \in 1..s.len : addrs[i] \in DOMAIN m
        THEN {[ok |-> TRUE, elems |-> [i \in 1..s.len |-> m[addrs[i]].val]]}
        ELSE {[ok |-> FALSE, elems |-> <<>>]} \cup
             {[ok |-> TRUE, elems |-> [i \in 1..s.len |->
                   IF addrs[i] \in DOMAIN m THEN m[addrs[i]].val ELSE g]] : g \in Garbage}

\* println!("Unsafe stuff: {:?}", <the pair hello returned>);
unsafe_rust_86(p) ==
    /\ At(p, "unsafe_rust", 86)
    /\ LET pair == Get(p, Slot["tmp"])
       IN  \E r1 \in SliceRead(mem[p], pair[1]), r2 \in SliceRead(mem[p], pair[2]) :
              IF r1.ok /\ r2.ok
              THEN /\ Println(p, Format(fmt(p).hello,
                          << FmtPair(FmtSlice(r1.elems), FmtSlice(r2.elems)) >>))
                   /\ Goto(p, "unsafe_rust", 95)
              ELSE Abort(p) /\ UNCHANGED out
    /\ UNCHANGED << stack, mem, COUNTER, trace, derefs, counter_log, layout, unit >>

\* int abs(int) of the C library
c_abs(n) == IF n < 0 THEN -n ELSE n

\* println!("Absolute value of -3 according to C: {}", abs(-3));
unsafe_rust_95(p) ==
    /\ At(p, "unsafe_rust", 95)
    /\ Println(p, Format(fmt(p).abs, << FmtI32(c_abs(-3)) >>))
    /\ Goto(p, "unsafe_rust", 105)
    /\ UNCHANGED << stack, mem, COUNTER, trace, derefs, counter_log, layout, unit >>

(* ----------------------- unsafe_rust: COUNTER -------------------------- *)
LogCounter(p, op) ==
    counter_log' = [counter_log EXCEPT ![p] = Append(@, [op |-> op, fn |-> pc[p].fn])]

counter_step_twice(c) == c + 2
\* COUNTER += 1
counter_step(c) == c + 1

\* COUNTER += 1;
unsafe_rust_105(p) ==
    /\ At(p, "unsafe_rust", 105)
    /\ COUNTER' = [COUNTER EXCEPT ![p] = counter_step(@)]
    /\ LogCounter(p, "update")
    /\ Goto(p, "unsafe_rust", 106)
    /\ UNCHANGED << stack, mem, out, trace, derefs, layout, unit >>

\* println!("COUNTER: {COUNTER}");
unsafe_rust_106(p) ==
    /\ At(p, "unsafe_rust", 106)
    /\ Println(p, Format(fmt(p).counter, << ToString(COUNTER[p]) >>))
    /\ LogCounter(p, "read")
    /\ Goto(p, "unsafe_rust", End("unsafe_rust"))
    /\ UNCHANGED << stack, mem, COUNTER, trace, derefs, layout, unit >>

unsafe_rust(p) ==
    \/ unsafe_rust_28(p) \/ unsafe_rust_31(p) \/ unsafe_rust_33(p) \/ unsafe_rust_36(p)
    \/ unsafe_rust_37(p) \/ unsafe_rust_40(p) \/ unsafe_rust_41(p) \/ unsafe_rust_54(p)
    \/ danger_50(p) \/ unsafe_rust_66(p) \/ danger_two_59(p) \/ danger_two_60(p)
    \/ danger_two_62(p) \/ unsafe_rust_82(p) \/ unsafe_rust_85(p) \/ hello_73(p)
    \/ hello_76(p) \/ hello_77(p) \/ hello_79(p) \/ unsafe_rust_86(p) \/ unsafe_rust_95(p)
    \/ unsafe_rust_105(p) \/ unsafe_rust_106(p)

(* --------------------------- advanced_traits --------------------------- *)
\* struct BarStruct; struct Check; struct Human;   (no fields)
BarStruct == <<>>
Check == <<>>
Human == <<>>

\* every impl block that defines a method; trait "" is an inherent impl and
\* param is the type argument of a generic trait
Impls ==
    { [trait |-> "FooAssociated", param |-> "", ty |-> "BarStruct", method |-> "foo_associated"],
      [trait |-> "FooGeneric", param |-> "u32", ty |-> "BarStruct", method |-> "foo_generic"],
      [trait |-> "FooGeneric", param |-> "String", ty |-> "BarStruct", method |-> "foo_generic"],
      [trait |-> "Winner", param |-> "u32", ty |-> "Check", method |-> "win"],
      [trait |-> "Arm", param |-> "", ty |-> "Human", method |-> "pain"],
      [trait |-> "Leg", param |-> "", ty |-> "Human", method |-> "pain"],
      [trait |-> "", param |-> "", ty |-> "Human", method |-> "pain"] }

Resolve_traits_first(call) ==
    LET cands == {i \in Impls : i.ty = call.ty /\ i.method = call.name}
    IN  IF call.form = "method"
        THEN IF {i \in cands : i.trait = "Arm"} /= {}
             THEN {i \in cands : i.trait = "Arm"} ELSE cands
        ELSE {i \in cands : i.trait = call.trait /\ i.param = call.param}
\* the impls a call can dispatch to: receiver.name() prefers the inherent
\* method of the receiver's type over trait methods, Trait::name(..) and
\* <Type as Trait>::name(..) name the trait
Resolve(call) ==
    LET cands == {i \in Impls : i.ty = call.ty /\ i.method = call.name}
    IN  IF call.form = "method"
        THEN IF {i \in cands : i.trait = ""} /= {}
             THEN {i \in cands : i.trait = ""} ELSE cands
        ELSE {i \in cands : i.trait = call.trait /\ i.param = call.param}

foo_associated_counting(self) == [self |-> Append(self, 1), ret |-> Some(U32(3 + Len(self)))]
\* fn foo_associated(&mut self) -> Option<Self::Item> { Some(3) }
foo_associated(self) == [self |-> self, ret |-> Some(U32(3))]
\* fn foo_generic(&mut self) -> Option<u32> { Some(5) }
foo_generic_u32(self) == [self |-> self, ret |-> Some(U32(5))]
\* fn foo_generic(&mut self) -> Option<String> { Some(String::from("generic")) }
foo_generic_String(self) == [self |-> self, ret |-> Some("generic")]
\* fn win(self, num: u32) -> u32 { num }
win(self, num) == num
\* the line each pain() prints, as its key in the format table
Arm_pain == "arm"
Leg_pain == "leg"
Human_pain == "human"

\* the body of an impl's method applied to self: the receiver afterwards, the
\* value returned, and the format-table key of the line printed ("" if none)
Invoke(i, self) ==
    CASE i.trait = "FooAssociated" -> foo_associated(self) @@ [line |-> ""]
      [] i.trait = "FooGeneric" /\ i.param = "u32" -> foo_generic_u32(self) @@ [line |-> ""]
      [] i.trait = "FooGeneric" /\ i.param = "String" -> foo_generic_String(self) @@ [line |-> ""]
      [] i.trait = "Arm" -> [self |-> self, ret |-> <<>>, line |-> Arm_pain]
      [] i.trait = "Leg" -> [self |-> self, ret |-> <<>>, line |-> Leg_pain]
      [] i.trait = "" /\ i.ty = "Human" -> [self |-> self, ret |-> <<>>, line |-> Human_pain]
Dispatch(call, self) == Invoke(CHOOSE i \in Resolve(call) : TRUE, self)

\* the call expressions of lines 173-175 and 232-238
call_173 == [form |-> "method", trait |-> "", param |-> "", ty |-> "BarStruct", name |-> "foo_associated"]
call_174 == [form |-> "path", trait |-> "FooGeneric", param |-> "u32", ty |-> "BarStruct", name |-> "foo_generic"]
call_175 == [form |-> "path", trait |-> "FooGeneric", param |-> "String", ty |-> "BarStruct", name |-> "foo_generic"]
call_232 == [form |-> "method", trait |-> "", param |-> "", ty |-> "Human", name |-> "pain"]
call_233 == [form |-> "path", trait |-> "Arm", param |-> "", ty |-> "Human", name |-> "pain"]
call_234 == [form |-> "path", trait |-> "Leg", param |-> "", ty |-> "Human", name |-> "pain"]
call_238 == [form |-> "path", trait |-> "Leg", param |-> "", ty |-> "Human", name |-> "pain"]

\* offsets of the locals of advanced_traits
SlotTraits == ("bar" :> 0) @@ ("check" :> 8) @@ ("human" :> 16) @@ ("my_box" :> 24) @@ ("w" :> 32)

\* let mut bar = BarStruct {};
advanced_traits_164(p) ==
    /\ At(p, "advanced_traits", 164)
    /\ Let(p, SlotTraits["bar"], "bar", BarStruct)
    /\ Goto(p, "advanced_traits", 171)
    /\ UNCHANGED << stack, COUNTER, out, trace, derefs, counter_log, layout, unit >>

\* println!("associated {:?} generic::u32 {:?} generic::String {:?}", ...):
\* the three arguments are evaluated left to right, each borrowing bar mutably
advanced_traits_171(p) ==
    /\ At(p, "advanced_traits", 171)
    /\ LET r1 == Dispatch(call_173, Get(p, SlotTraits["bar"]))
           r2 == Dispatch(call_174, r1.self)
           r3 == Dispatch(call_175, r2.self)
       IN  /\ Let(p, SlotTraits["bar"], "bar", r3.self)
           /\ Println(p, Format(fmt(p).bar,
                  << FmtOptionU32(r1.ret), FmtOptionU32(r2.ret), FmtOptionString(r3.ret) >>))
    /\ Goto(p, "advanced_traits", 197)
    /\ UNCHANGED << stack, COUNTER, trace, derefs, counter_log, layout, unit >>

\* let check = Check {};
advanced_traits_197(p) ==
    /\ At(p, "advanced_traits", 197)
    /\ Let(p, SlotTraits["check"], "check", Check)
    /\ Goto(p, "advanced_traits", 199)
    /\ UNCHANGED << stack, COUNTER, out, trace, derefs, counter_log, layout, unit >>

\* println!("win {}", check.win(4));   check is moved into win
advanced_traits_199(p) ==
    /\ At(p, "advanced_traits", 199)
    /\ Println(p, Format(fmt(p).win, << FmtU32(win(Get(p, SlotTraits["check"]), U32(4))) >>))
    /\ mem' = [mem EXCEPT ![p] = Without(@, {Local(p, SlotTraits["check"])})]
    /\ Goto(p, "advanced_traits", 227)
    /\ UNCHANGED << stack, COUNTER, trace, derefs, counter_log, layout, unit >>

\* let human = Human {};
advanced_traits_227(p) ==
    /\ At(p, "advanced_traits", 227)
    /\ Let(p, SlotTraits["human"], "human", Human)
    /\ Goto(p, "advanced_traits", 232)
    /\ UNCHANGED << stack, COUNTER, out, trace, derefs, counter_log, layout, unit >>

\* a pain() call on human: the impl it resolves to prints its line
Pain(p, call, next) ==
    /\ Println(p, Format(fmt(p)[Dispatch(call, Get(p, SlotTraits["human"])).line], <<>>))
    /\ Goto(p, "advanced_traits", next)
    /\ UNCHANGED << stack, mem, COUNTER, trace, derefs, counter_log, layout, unit >>

\* human.pain();
advanced_traits_232(p) == At(p, "advanced_traits", 232) /\ Pain(p, call_232, 233)
\* Arm::pain(&human);
advanced_traits_233(p) == At(p, "advanced_traits", 233) /\ Pain(p, call_233, 234)
\* Leg::pain(&human);
advanced_traits_234(p) == At(p, "advanced_traits", 234) /\ Pain(p, call_234, 238)
\* <Human as Leg>::pain(&human);
advanced_traits_238(p) == At(p, "advanced_traits", 238) /\ Pain(p, call_238, 260)

\* impl Display for Box: write!(f, "{}", self.len)
Box_fmt(p, self) == Format(fmt(p).box, << FmtI32(self.len) >>)
\* fn show_stuff(&self): the line it prints, self.to_string() going through Display
show_stuff(p, self) == Format(fmt(p).show_stuff, << Box_fmt(p, self) >>)

\* let my_box = Box { len: 12 };
advanced_traits_260(p) ==
    /\ At(p, "advanced_traits", 260)
    /\ Let(p, SlotTraits["my_box"], "my_box", [len |-> 12])
    /\ Goto(p, "advanced_traits", 262)
    /\ UNCHANGED << stack, COUNTER, out, trace, derefs, counter_log, layout, unit >>

\* my_box.show_stuff();
advanced_traits_262(p) ==
    /\ At(p, "advanced_traits", 262)
    /\ Println(p, show_stuff(p, Get(p, SlotTraits["my_box"])))
    /\ Goto(p, "advanced_traits", 280)
    /\ UNCHANGED << stack, mem, COUNTER, trace, derefs, counter_log, layout, unit >>

Wrapper_fmt_trailing(p, self) ==
    Format(fmt(p).wrapper,
           << Join([i \in 1..Len(self) |-> self[i] \o fmt(p).wrapper_sep[1]], "") >>)
\* impl Display for Wrapper: write!(f, "[{}]", self.0.join(", "))
Wrapper_fmt(p, self) == Format(fmt(p).wrapper, << Join(self, fmt(p).wrapper_sep[1]) >>)

\* let w = Wrapper(vec![String::from("hello"), String::from("world")]);
advanced_traits_280(p) ==
    /\ At(p, "advanced_traits", 280)
    /\ Let(p, SlotTraits["w"], "w", << "hello", "world" >>)
    /\ Goto(p, "advanced_traits", 281)
    /\ UNCHANGED << stack, COUNTER, out, trace, derefs, counter_log, layout, unit >>

\* println!("w = {}", w);
advanced_traits_281(p) ==
    /\ At(p, "advanced_traits", 281)
    /\ Println(p, Format(fmt(p).w, << Wrapper_fmt(p, Get(p, SlotTraits["w"])) >>))
    /\ Goto(p, "advanced_traits", End("advanced_traits"))
    /\ UNCHANGED << stack, mem, COUNTER, trace, derefs, counter_log, layout, unit >>

advanced_traits(p) ==
    \/ advanced_traits_164(p) \/ advanced_traits_171(p) \/ advanced_traits_197(p)
    \/ advanced_traits_199(p) \/ advanced_traits_227(p) \/ advanced_traits_232(p)
    \/ advanced_traits_233(p) \/ advanced_traits_234(p) \/ advanced_traits_238(p)
    \/ advanced_traits_260(p) \/ advanced_traits_262(p) \/ advanced_traits_280(p)
    \/ advanced_traits_281(p)

(* ---------------------------- advanced_types --------------------------- *)
\* {:?} of a HashMap, given the renderings of its entries
FmtMap(entries) == "{" \o Join(entries, ", ") \o "}"

\* let hello: Hi = HashMap::new();
advanced_types_292(p) ==
    /\ At(p, "advanced_types", 292)
    /\ Let(p, 0, "hello", <<>>)
    /\ Goto(p, "advanced_types", 294)
    /\ UNCHANGED << stack, COUNTER, out, trace, derefs, counter_log, layout, unit >>

\* println!("hello: {:?}", hello);
advanced_types_294(p) ==
    /\ At(p, "advanced_types", 294)
    /\ Println(p, Format(fmt(p).hi, << FmtMap(Get(p, 0)) >>))
    /\ Goto(p, "advanced_types", 306)
    /\ UNCHANGED << stack, mem, COUNTER, trace, derefs, counter_log, layout, unit >>

cond_306_taken == TRUE
\* the condition of `if false { foo(); }`
cond_306 == FALSE

\* if false { foo(); }   where foo() -> ! is panic!("never type"): a call of
\* foo unwinds the process, the message going to standard error
advanced_types_306(p) ==
    /\ At(p, "advanced_types", 306)
    /\ IF cond_306 THEN Panic(p) ELSE Goto(p, "advanced_types", End("advanced_types"))
    /\ UNCHANGED << stack, mem, COUNTER, out, trace, derefs, counter_log, layout, unit >>

advanced_types(p) ==
    \/ advanced_types_292(p) \/ advanced_types_294(p) \/ advanced_types_306(p)

(* ------------------ advanced_functions_and_closures -------------------- *)
I32Max == 2147483647
\* a + b on i32 for b >= 0: panics on overflow in a debug build, wraps otherwise
I32Add(a, b, prof) ==
    IF a > I32Max - b
    THEN [ok |-> prof /= "debug", val |-> (a - I32Max - 1) + (b - I32Max - 1)]
    ELSE [ok |-> TRUE, val |-> a + b]

foo_plus_two(i, prof) == U32Add(i, U32(2), prof)
\* fn foo(i: u32) -> u32 { i + 1 }
foo(i, prof) == U32Add(i, U32(1), prof)
\* let close = |i: u32| { i + capture };   capture is the captured value
close(i, capture, prof) == U32Add(i, capture, prof)
\* the closure of returns_closure: |x| x + 1 on i32
returned_closure(x, prof) == I32Add(x, 1, prof)

\* a value that implements Fn(u32) -> u32: the closure close, holding a
\* reference to the captured local, or the function item foo
CloseAt(env) == [kind |-> "closure", env |-> env]
FooItem == [kind |-> "fn", env |-> 0]
\* f(i) for such a value, in memory m
Apply(m, f, i, prof) ==
    IF f.kind = "closure" THEN close(i, m[f.env].val, prof) ELSE foo(i, prof)

\* the arguments closure_add and function_ptr_add pass to f
arg_closure_add == 2
arg_function_ptr_add == 3

\* offsets of the locals of advanced_functions_and_closures
SlotFns == ("capture" :> 0) @@ ("close" :> 8) @@ ("returned_value" :> 16)

\* let capture = 1;
advanced_functions_and_closures_342(p) ==
    /\ At(p, "advanced_functions_and_closures", 342)
    /\ Let(p, SlotFns["capture"], "capture", U32(1))
    /\ Goto(p, "advanced_functions_and_closures", 347)
    /\ UNCHANGED << stack, COUNTER, out, trace, derefs, counter_log, layout, unit >>

\* let close = |i: u32| { i + capture };
advanced_functions_and_closures_347(p) ==
    /\ At(p, "advanced_functions_and_closures", 347)
    /\ Let(p, SlotFns["close"], "close", CloseAt(Local(p, SlotFns["capture"])))
    /\ Goto(p, "advanced_functions_and_closures", 351)
    /\ UNCHANGED << stack, COUNTER, out, trace, derefs, counter_log, layout, unit >>

\* println!(<format>, f(arg)) in closure_add and function_ptr_add: an overflow
\* panic in f unwinds the process
PrintApply(p, pieces, f, arg, next) ==
    LET r == Apply(mem[p], f, U32(arg), profile[p])
    IN  IF r.ok
        THEN Println(p, Format(pieces, << FmtU32(r.val) >>))
             /\ Goto(p, "advanced_functions_and_closures", next)
        ELSE Panic(p) /\ UNCHANGED out

\* closure_add(&close);
advanced_functions_and_closures_351(p) ==
    /\ At(p, "advanced_functions_and_closures", 351)
    /\ PrintApply(p, fmt(p).closure_add, Get(p, SlotFns["close"]), arg_closure_add, 352)
    /\ UNCHANGED << stack, mem, COUNTER, trace, derefs, counter_log, layout, unit >>

\* closure_add(&foo);
advanced_functions_and_closures_352(p) ==
    /\ At(p, "advanced_functions_and_closures", 352)
    /\ PrintApply(p, fmt(p).closure_add, FooItem, arg_closure_add, 354)
    /\ UNCHANGED << stack, mem, COUNTER, trace, derefs, counter_log, layout, unit >>

\* function_ptr_add(foo);
advanced_functions_and_closures_354(p) ==
    /\ At(p, "advanced_functions_and_closures", 354)
    /\ PrintApply(p, fmt(p).function_ptr_add, FooItem, arg_function_ptr_add, 363)
    /\ UNCHANGED << stack, mem, COUNTER, trace, derefs, counter_log, layout, unit >>

\* let returned_value = returns_closure();
advanced_functions_and_closures_363(p) ==
    /\ At(p, "advanced_functions_and_closures", 363)
    /\ Let(p, SlotFns["returned_value"], "returned_value", [kind |-> "boxed", env |-> 0])
    /\ Goto(p, "advanced_functions_and_closures", 365)
    /\ UNCHANGED << stack, COUNTER, out, trace, derefs, counter_log, layout, unit >>

\* println!("returned value: {}", returned_value(2));
advanced_functions_and_closures_365(p) ==
    /\ At(p, "advanced_functions_and_closures", 365)
    /\ LET r == returned_closure(2, profile[p])
       IN  IF r.ok
           THEN Println(p, Format(fmt(p).returned, << FmtI32(r.val) >>))
                /\ Goto(p, "advanced_functions_and_closures",
                        End("advanced_functions_and_closures"))
           ELSE Panic(p) /\ UNCHANGED out
    /\ UNCHANGED << stack, mem, COUNTER, trace, derefs, counter_log, layout, unit >>

advanced_functions_and_closures(p) ==
    \/ advanced_functions_and_closures_342(p) \/ advanced_functions_and_closures_347(p)
    \/ advanced_functions_and_closures_351(p) \/ advanced_functions_and_closures_352(p)
    \/ advanced_functions_and_closures_354(p) \/ advanced_functions_and_closures_363(p)
    \/ advanced_functions_and_closures_365(p)

(* -------------------------------- macros ------------------------------- *)
\* An argument of a macro call is an expression, not a value: a literal, or
\* an expression with an effect, here tick, which yields the value of a
\* counter and increments it.  id is the position of the argument in the
\* call; an environment is the counter and the ids evaluated so far.
Lit(id, v) == [id |-> id, kind |-> "lit", val |-> v]
Tick(id) == [id |-> id, kind |-> "tick", val |-> 0]
Env0 == [ctr |-> 0, evals |-> <<>>]
\* evaluating expression e in environment env: its value, the environment after
Eval(e, env) ==
    [val |-> IF e.kind = "tick" THEN env.ctr ELSE e.val,
     env |-> [ctr |-> IF e.kind = "tick" THEN env.ctr + 1 ELSE env.ctr,
              evals |-> Append(env.evals, e.id)]]

RECURSIVE vec_new_push_front(_, _)
vec_new_push_front(acc, xs) ==
    IF xs = <<>> THEN acc
    ELSE LET r == Eval(Head(xs), acc.env)
         IN  vec_new_push_front([temp_vec |-> << r.val >> \o acc.temp_vec, env |-> r.env],
                                Tail(xs))
\* $( temp_vec.push($x); )* : one push statement per argument, in the order
\* written, each evaluating its argument where it stands
RECURSIVE vec_new_push(_, _)
vec_new_push(acc, xs) ==
    IF xs = <<>> THEN acc
    ELSE LET r == Eval(Head(xs), acc.env)
         IN  vec_new_push([temp_vec |-> Append(acc.temp_vec, r.val), env |-> r.env], Tail(xs))
\* the expansion of vec_new![xs]: let mut temp_vec = Vec::new(); the pushes;
\* temp_vec.  Gives the vector and the environment after the block.
vec_new(xs, env) == vec_new_push([temp_vec |-> <<>>, env |-> env], xs)
\* the arguments of vec_new![1,2,3]
args_410 == << Lit(1, 1), Lit(2, 2), Lit(3, 3) >>

\* println!("vec_new: {:?}", vec_new![1,2,3]);
macros_410(p) ==
    /\ At(p, "macros", 410)
    /\ Println(p, Format(fmt(p).vec_new, << FmtSlice(vec_new(args_410, Env0).temp_vec) >>))
    /\ Goto(p, "macros", 428)
    /\ UNCHANGED << stack, mem, COUNTER, trace, derefs, counter_log, layout, unit >>

\* the hello_macro() that #[derive(HelloMacro)] generates for a type: the
\* deriving crate is not part of the sources at hand, this is the textbook body
hello_macro(name) == "Hello, Macro! My name is " \o name \o "!"

\* TheNamedStruct::hello_macro();
macros_428(p) ==
    /\ At(p, "macros", 428)
    /\ Println(p, hello_macro("TheNamedStruct"))
    /\ Goto(p, "macros", End("macros"))
    /\ UNCHANGED << stack, mem, COUNTER, trace, derefs, counter_log, layout, unit >>

macros(p) == macros_410(p) \/ macros_428(p)

(* --------------------------- the two programs -------------------------- *)
Step(p) ==
    \/ main_call(p) \/ main_return(p) \/ fn_return(p)
    \/ unsafe_rust(p) \/ advanced_traits(p) \/ advanced_types(p)
    \/ advanced_functions_and_closures(p) \/ macros(p)

\* the two binaries run side by side, each at its own pace
Next == \E p \in Programs : Step(p)

Spec == Init /\ [][Next]_vars

(* ------------------------------ unit driver ---------------------------- *)
\* The functions of the demonstrations applied to inputs the programs never
\* pass them, in the build and with the allocator of the full program; unit
\* holds the last application and what it gave.

\* hello applied to the vector [1, .., n] placed at some heap address
unit_hello ==
    \E n \in 0..MaxVecLen :
        LET base == heap_base["large"]
            elems == [i \in 1..n |-> i]
            x == VecAt(base, elems)
            cells == VecCells(base, elems)
            r == hello(x)
        IN  /\ unit' = [op |-> "hello", x |-> x, elems |-> elems,
                        first |-> r[1], second |-> r[2],
                        first_read |-> SliceRead(cells, r[1]),
                        second_read |-> SliceRead(cells, r[2])]
            /\ UNCHANGED << pc, stack, mem, COUNTER, out, trace, derefs, counter_log, layout >>

\* u32 values around 0, 2^16, 2^31 and 2^32 - 1
U32Inputs ==
    UNION { { [hi |-> 0, lo |-> k], [hi |-> 0, lo |-> Half - 1 - k], [hi |-> 1, lo |-> k],
              [hi |-> Half \div 2 - 1, lo |-> Half - 1 - k], [hi |-> Half \div 2, lo |-> k],
              [hi |-> Half - 1, lo |-> Half - 1 - k] } : k \in 0..NearEdge }

\* close (capturing a local that holds 1) and foo applied to the same u32
unit_fn ==
    \E i \in U32Inputs :
        LET m == (0 :> [var |-> "capture", val |-> U32(1)])
            prof == profile["large"]
        IN  /\ unit' = [op |-> "fn", i |-> i, prof |-> prof,
                        close |-> Apply(m, CloseAt(0), i, prof),
                        foo |-> Apply(m, FooItem, i, prof)]
            /\ UNCHANGED << pc, stack, mem, COUNTER, out, trace, derefs, counter_log, layout >>

\* one more method call on the same BarStruct, any of the three, in any order
unit_bar ==
    \E c \in {call_173, call_174, call_175} :
        LET self == IF unit.op = "bar" THEN unit.bar ELSE BarStruct
            hist == IF unit.op = "bar" THEN unit.hist ELSE <<>>
            r == Dispatch(c, self)
        IN  /\ Len(hist) < MaxCalls
            /\ unit' = [op |-> "bar", bar |-> r.self,
                        hist |-> Append(hist, [call |-> c, ret |-> r.ret])]
            /\ UNCHANGED << pc, stack, mem, COUNTER, out, trace, derefs, counter_log, layout >>

\* vec_new! applied to any list of literals (the i-th being 10 * i) and ticks
unit_vec_new ==
    \E n \in 0..MaxArgs :
        \E kinds \in [1..n -> {"lit", "tick"}] :
            LET args == [i \in 1..n |-> IF kinds[i] = "lit" THEN Lit(i, 10 * i) ELSE Tick(i)]
                r == vec_new(args, Env0)
            IN  /\ unit' = [op |-> "vec_new", args |-> args,
                            temp_vec |-> r.temp_vec, env |-> r.env]
                /\ UNCHANGED << pc, stack, mem, COUNTER, out, trace, derefs, counter_log, layout >>

\* Display of a Wrapper around any vector of these strings
unit_wrapper ==
    \E n \in 0..MaxStrs :
        \E w \in [1..n -> {"hello", "world", ""}] :
            /\ unit' = [op |-> "wrapper", w |-> w, shown |-> Wrapper_fmt("large", w)]
            /\ UNCHANGED << pc, stack, mem, COUNTER, out, trace, derefs, counter_log, layout >>

\* the full program runs while the unit driver applies the functions; the
\* smaller binary is not started and its layout is immaterial
InitUnit ==
    /\ Init
    /\ stack_base["small"] = 32768
    /\ heap_base["small"] = 4096
    /\ profile["small"] = "debug"

NextUnit == Step("large") \/ unit_hello \/ unit_fn \/ unit_bar \/ unit_vec_new
            \/ unit_wrapper

SpecUnit == InitUnit /\ [][NextUnit]_vars

\* the full program alone, running on until it exits or dies
SpecMain == InitUnit /\ [][Step("large")]_vars /\ WF_vars(Step("large"))

(* ============================ properties =============================== *)
Exited(p) == pc[p].fn = "exit"
Dead(p) == pc[p].fn \in {"panic", "abort"}
LastLine(p) == out[p][Len(out[p])]
\* number of lines on standard output when demonstration f was called / returned
CalledAt(p, f) == {e.at : e \in {trace[p][k] : k \in 1..Len(trace[p])} \cap
                              {[ev |-> "call", fn |-> f, at |-> n] : n \in 0..Len(out[p])}}
Returned(p, f) == \E k \in 1..Len(trace[p]) : trace[p][k].ev = "ret" /\ trace[p][k].fn = f

(* C1: in every run of the full program main executes unsafe_rust,
   advanced_traits, advanced_types, advanced_functions_and_closures and
   macros exactly once each, in that order, each starting only after the
   previous one has returned; none is skipped or repeated. *)
Demonstrations ==
    << "unsafe_rust", "advanced_traits", "advanced_types",
       "advanced_functions_and_closures", "macros" >>
C1_InOrderOnce ==
    LET t == trace["large"]
    IN  /\ Len(t) <= 2 * Len(Demonstrations)
        /\ \A k \in 1..Len(t) :
              /\ t[k].fn = Demonstrations[(k + 1) \div 2]
              /\ t[k].ev = IF k % 2 = 1 THEN "call" ELSE "ret"
        /\ pc["large"].fn \in {"main", "exit"} => Len(t) % 2 = 0
        /\ pc["large"].fn \notin {"main", "exit", "panic", "abort"} =>
              /\ Len(t) % 2 = 1
              /\ stack["large"][2].fn = t[Len(t)].fn
        /\ Exited("large") => Len(t) = 2 * Len(Demonstrations)
C1_Witness == Exited("large") /\ Len(trace["large"]) = 10

(* C2: run side by side, the lines printed by the smaller program are
   exactly a prefix of the lines printed by the larger one, which then
   continues with the output of advanced_functions_and_closures and macros. *)
C2_SmallIsPrefix ==
    LET s == out["small"]
        l == out["large"]
    IN  /\ \A k \in 1..Len(s) : k <= Len(l) => s[k] = l[k]
        /\ Exited("small") /\ Exited("large") =>
              /\ Len(s) < Len(l)
              /\ SubSeq(l, 1, Len(s)) = s
              /\ CalledAt("large", "advanced_functions_and_closures") = {Len(s)}
              /\ \E n \in CalledAt("large", "macros") : Len(s) < n /\ n < Len(l)
              /\ trace["large"][Len(trace["large"])] =
                     [ev |-> "ret", fn |-> "macros", at |-> Len(l)]
C2_Witness == Exited("small") /\ Exited("large") /\ Len(out["small"]) = 16

(* C3: COUNTER is touched by one thread only; it is 0 at process start, is
   incremented exactly once, inside unsafe_rust, the value printed is 1, in
   every reachable state it is 0 or 1 and it never decreases; no other
   demonstration reads or writes it. *)
C3_State(p) ==
    LET log == counter_log[p]
    IN  /\ COUNTER[p] \in {0, 1}
        /\ trace[p] = <<>> => COUNTER[p] = 0
        /\ \A k \in 1..Len(log) : log[k].fn = "unsafe_rust"
        /\ Len(log) <= 2
        /\ \A k \in 1..Len(log) : log[k].op = << "update", "read" >>[k]
        /\ COUNTER[p] = Cardinality({k \in 1..Len(log) : log[k].op = "update"})
        /\ Len(log) = 2 => \E k \in 1..Len(out[p]) : out[p][k] = "COUNTER: 1"
        /\ \A k \in 1..Len(out[p]) :
              out[p][k] \in {"COUNTER: " \o ToString(n) : n \in 0..3} => out[p][k] = "COUNTER: 1"
        /\ Returned(p, "unsafe_rust") => COUNTER[p] = 1 /\ Len(log) = 2
C3_Counter ==
    /\ [](\A p \in Programs : C3_State(p))
    /\ [][\A p \in Programs : COUNTER'[p] >= COUNTER[p]]_vars
C3_Witness == Exited("large") /\ COUNTER["large"] = 1 /\ Len(counter_log["large"]) = 2

(* C4: every run of main terminates normally after the last demonstration;
   no demonstration panics or loops, foo is never invoked and advanced_types
   always returns to main. *)
C4_Terminates ==
    /\ [](~Dead("large"))
    /\ [](Exited("large") => Returned("large", "advanced_types") /\ Returned("large", "macros"))
    /\ <>Exited("large")
C4_Witness == Exited("large") /\ Returned("large", "advanced_types")

\* i32 index ranges and bounds of a slice s relative to the vector x
Range(f) == {f[i] : i \in DOMAIN f}
Indices(s, x) == {(a - x.ptr) \div I32Size : a \in Range(SliceAddrs(s))}
InBounds(s, x) == s.ptr >= x.ptr /\ ElemAddr(s.ptr, s.len) <= ElemAddr(x.ptr, x.len)
AsSlice(x) == [ptr |-> x.ptr, len |-> x.len]

(* C5: called on the vector [1, 2, 3, 4, 5], hello returns first = the
   elements at indices 0..2 ([1, 2, 3]) and second = those at indices 3..4
   ([4, 5]); the two mutable slices share no element and together cover
   every element of the vector exactly once, in order. *)
C5_At(p) ==
    LET x == Get(p, Slot["x_vec"])
        first == Get(p, Slot["tmp"])[1]
        second == Get(p, Slot["tmp"])[2]
    IN  /\ SliceRead(mem[p], AsSlice(x)) = {[ok |-> TRUE, elems |-> <<1, 2, 3, 4, 5>>]}
        /\ SliceRead(mem[p], first) = {[ok |-> TRUE, elems |-> <<1, 2, 3>>]}
        /\ SliceRead(mem[p], second) = {[ok |-> TRUE, elems |-> <<4, 5>>]}
        /\ Indices(first, x) = 0..2
        /\ Indices(second, x) = 3..4
        /\ Range(SliceAddrs(first)) \cap Range(SliceAddrs(second)) = {}
        /\ SliceAddrs(first) \o SliceAddrs(second) = SliceAddrs(AsSlice(x))
C5_DisjointCover ==
    \A p \in Programs :
        /\ At(p, "unsafe_rust", 86) => C5_At(p)
        /\ At(p, "unsafe_rust", 95) => LastLine(p) = "Unsafe stuff: ([1, 2, 3], [4, 5])"
C5_Witness == At("large", "unsafe_rust", 95) /\ At("small", "unsafe_rust", 86)

(* C6: hello performs no length check: its slices always have lengths 3 and
   2 at offsets 0 and 3, so they lie within the vector if and only if it has
   at least 5 elements, and for a shorter vector at least one slice extends
   past its end.  The program only calls hello with a vector of length 5,
   so no out-of-bounds slice is ever created. *)
C6_NoLengthCheck ==
    /\ unit.op = "hello" =>
          /\ unit.first = [ptr |-> unit.x.ptr, len |-> 3]
          /\ unit.second = [ptr |-> ElemAddr(unit.x.ptr, 3), len |-> 2]
          /\ (InBounds(unit.first, unit.x) /\ InBounds(unit.second, unit.x)) <=> unit.x.len >= 5
          /\ unit.x.len < 5 =>
                \/ ElemAddr(unit.first.ptr, unit.first.len) > ElemAddr(unit.x.ptr, unit.x.len)
                \/ ElemAddr(unit.second.ptr, unit.second.len) > ElemAddr(unit.x.ptr, unit.x.len)
          /\ unit.x.len < 5 => [ok |-> FALSE, elems |-> <<>>] \in unit.second_read
          /\ unit.x.len >= 5 =>
                /\ unit.first_read = {[ok |-> TRUE, elems |-> <<1, 2, 3>>]}
                /\ unit.second_read = {[ok |-> TRUE, elems |-> <<4, 5>>]}
    /\ pc["large"].fn = "hello" =>
          mem["large"][Get("large", SlotHello["x"])].val.len = 5
    /\ At("large", "hello", 79) =>
          LET x == mem["large"][Get("large", SlotHello["x"])].val
          IN  /\ InBounds(Get("large", SlotHello["first"]), x)
              /\ InBounds(Get("large", SlotHello["second"]), x)
    /\ At("large", "unsafe_rust", 86) =>
          /\ InBounds(Get("large", Slot["tmp"])[1], Get("large", Slot["x_vec"]))
          /\ InBounds(Get("large", Slot["tmp"])[2], Get("large", Slot["x_vec"]))
    /\ pc["large"].fn /= "abort"
C6_Witness ==
    /\ unit.op = "hello" /\ unit.x.len = 4
    /\ At("large", "unsafe_rust", 95)

(* C7: the pointer to the arbitrary address 0x012345 is created but never
   dereferenced; every raw-pointer dereference the program performs
   (mutable_ptr, immutable_ptr, and ptr in danger_two) targets a local
   variable that is live at the moment of the dereference. *)
C7_At(p) ==
    LET d == derefs[p]
        expected == << [ptr |-> "mutable_ptr", fn |-> "unsafe_rust", target |-> "x"],
                       [ptr |-> "immutable_ptr", fn |-> "unsafe_rust", target |-> "x"],
                       [ptr |-> "ptr", fn |-> "danger_two", target |-> "danger_two::x"] >>
    IN  /\ Len(d) <= 3
        /\ \A k \in 1..Len(d) :
              /\ d[k].ptr /= "_unknown_if_valid"
              /\ d[k].addr /= ArbitraryAddress
              /\ d[k].target /= "nothing"
              /\ [ptr |-> d[k].ptr, fn |-> d[k].fn, target |-> d[k].target] = expected[k]
        /\ Returned(p, "unsafe_rust") => Len(d) = 3
        /\ pc[p].fn /= "abort"
        /\ At(p, "unsafe_rust", 40) =>
              /\ Get(p, Slot["_unknown_if_valid"]) = ArbitraryAddress
              /\ ArbitraryAddress \notin DOMAIN mem[p]
C7_LiveTargets == \A p \in Programs : C7_At(p)
C7_Witness == Returned("large", "unsafe_rust") /\ Len(derefs["large"]) = 3

(* C8: human.pain() calls the inherent implementation ("Overall I feel
   good"), Arm::pain(&human) the Arm one ("My arm feels good"), and both
   Leg::pain(&human) and <Human as Leg>::pain(&human) the Leg one ("My leg is
   a little sore"); the four lines are printed in that order. *)
C8_At(p) ==
    /\ At(p, "advanced_traits", 233) => LastLine(p) = "Overall I feel good"
    /\ At(p, "advanced_traits", 234) => LastLine(p) = "My arm feels good"
    /\ At(p, "advanced_traits", 238) => LastLine(p) = "My leg is a little sore"
    /\ At(p, "advanced_traits", 260) =>
          SubSeq(out[p], Len(out[p]) - 3, Len(out[p])) =
              << "Overall I feel good", "My arm feels good",
                 "My leg is a little sore", "My leg is a little sore" >>
    /\ Returned(p, "advanced_traits") =>
          \A n \in CalledAt(p, "advanced_traits") :
              SubSeq(out[p], n + 3, n + 6) =
                  << "Overall I feel good", "My arm feels good",
                     "My leg is a little sore", "My leg is a little sore" >>
    /\ \A k \in 1..Len(out[p]) :
          out[p][k] \in {"Overall I feel good", "My arm feels good", "My leg is a little sore"}
              => \E n \in CalledAt(p, "advanced_traits") : k \in (n + 3)..(n + 6)
C8_PainDispatch == \A p \in Programs : C8_At(p)
C8_Witness == At("large", "advanced_traits", 260) /\ Returned("small", "advanced_traits")

(* C9: BarStruct has one FooAssociated implementation and two FooGeneric
   implementations selected by the type parameter; foo_associated always
   returns Some(3), foo_generic for u32 always Some(5) and foo_generic for
   String always Some("generic"), whatever calls were made before. *)
C9_BarResults ==
    /\ unit.op = "bar" =>
          /\ unit.bar = BarStruct
          /\ \A k \in 1..Len(unit.hist) :
                LET h == unit.hist[k]
                IN  /\ h.call = call_173 => h.ret = [some |-> TRUE, val |-> [hi |-> 0, lo |-> 3]]
                    /\ h.call = call_174 => h.ret = [some |-> TRUE, val |-> [hi |-> 0, lo |-> 5]]
                    /\ h.call = call_175 => h.ret = [some |-> TRUE, val |-> "generic"]
    /\ Cardinality({i \in Impls : i.ty = "BarStruct" /\ i.trait = "FooAssociated"}) = 1
    /\ Cardinality({i \in Impls : i.ty = "BarStruct" /\ i.trait = "FooGeneric"}) = 2
    /\ At("large", "advanced_traits", 197) =>
          LastLine("large") =
              "associated Some(3) generic::u32 Some(5) generic::String Some(\"generic\")"
C9_Witness ==
    /\ unit.op = "bar" /\ Len(unit.hist) >= 3
    /\ unit.hist[1].call = call_175 /\ unit.hist[2].call = call_173
    /\ unit.hist[3].call = call_173
    /\ At("large", "advanced_traits", 197)

(* C10: the closure close (i + capture, capture = 1) and the function foo
   (i + 1) return the same value i + 1 for every u32 i below 2^32 - 1;
   closure_add(&close) and closure_add(&foo) both print "add from closure
   3", function_ptr_add(foo) prints "add from function ptr 4", and the
   program's additions never overflow. *)
Succ32(i) == IF i.lo = Half - 1 THEN [hi |-> i.hi + 1, lo |-> 0] ELSE [hi |-> i.hi, lo |-> i.lo + 1]
C10_SameFunction ==
    /\ unit.op = "fn" /\ unit.i /= U32Max =>
          /\ unit.close = [ok |-> TRUE, val |-> Succ32(unit.i)]
          /\ unit.foo = [ok |-> TRUE, val |-> Succ32(unit.i)]
    /\ At("large", "advanced_functions_and_closures", 352) =>
          LastLine("large") = "add from closure 3"
    /\ At("large", "advanced_functions_and_closures", 354) =>
          SubSeq(out["large"], Len(out["large"]) - 1, Len(out["large"])) =
              << "add from closure 3", "add from closure 3" >>
    /\ At("large", "advanced_functions_and_closures", 363) =>
          LastLine("large") = "add from function ptr 4"
    /\ pc["large"] \notin {[fn |-> "panic", at |-> l] : l \in {351, 352, 354}}
C10_Witness ==
    /\ unit.op = "fn" /\ unit.i = [hi |-> Half - 1, lo |-> Half - 2]
    /\ At("large", "advanced_functions_and_closures", 363)

(* C11: vec_new! takes all its expressions at once and pushes each one: for
   n >= 0 arguments it yields a vector of length n whose i-th element is the
   value of the i-th argument, each argument evaluated exactly once, left to
   right; vec_new![] is empty and vec_new![1,2,3] is [1, 2, 3]. *)
\* the value argument i has when the arguments are evaluated once each from
\* the left: a tick yields the number of ticks before it
ValueInOrder(args, i) ==
    IF args[i].kind = "tick"
    THEN Cardinality({j \in 1..(i - 1) : args[j].kind = "tick"})
    ELSE args[i].val
C11_PushEach ==
    /\ unit.op = "vec_new" =>
          LET n == Len(unit.args)
          IN  /\ Len(unit.temp_vec) = n
              /\ \A i \in 1..n : unit.temp_vec[i] = ValueInOrder(unit.args, i)
              /\ unit.env.evals = [i \in 1..n |-> i]
              /\ n = 0 => unit.temp_vec = <<>>
    /\ At("large", "macros", 428) => LastLine("large") = "vec_new: [1, 2, 3]"
C11_Witness ==
    /\ unit.op = "vec_new" /\ Len(unit.args) = 3
    /\ unit.args[1].kind = "tick" /\ unit.args[2].kind = "lit" /\ unit.args[3].kind = "tick"
    /\ unit.temp_vec = << 0, 20, 1 >>
    /\ At("large", "macros", 428)

(* C12: Display for Wrapper renders the wrapped vector as "[", the elements
   in their original order separated by ", ", then "]": the empty vector
   renders as "[]", one element has no separator, n elements have n - 1
   separators, Wrapper(["hello", "world"]) prints "w = [hello, world]", and
   formatting leaves the wrapped vector unchanged. *)
\* where element i starts in the rendering, and how often ", " occurs in a text
RECURSIVE StartOf(_, _)
StartOf(w, i) == IF i = 1 THEN 2 ELSE StartOf(w, i - 1) + Len(w[i - 1]) + 2
Separators(s) == Cardinality({k \in 1..(Len(s) - 1) : SubSeq(s, k, k + 1) = ", "})
C12_WrapperDisplay ==
    /\ unit.op = "wrapper" =>
          LET w == unit.w
              s == unit.shown
              n == Len(w)
          IN  /\ SubSeq(s, 1, 1) = "["
              /\ SubSeq(s, Len(s), Len(s)) = "]"
              /\ n = 0 => s = "[]"
              /\ n = 1 => s = "[" \o w[1] \o "]"
              /\ Separators(s) = IF n = 0 THEN 0 ELSE n - 1
              /\ \A i \in 1..n : SubSeq(s, StartOf(w, i), StartOf(w, i) + Len(w[i]) - 1) = w[i]
              /\ Len(s) = IF n = 0 THEN 2 ELSE StartOf(w, n) + Len(w[n])
    /\ At("large", "advanced_traits", 282) =>
          /\ LastLine("large") = "w = [hello, world]"
          /\ Get("large", SlotTraits["w"]) = << "hello", "world" >>
C12_Witness ==
    /\ unit.op = "wrapper" /\ unit.w = << "world", "hello" >>
    /\ unit.shown = "[world, hello]"
    /\ At("large", "advanced_traits", 282)

====
